---------------------------- MODULE Spec2Model ----------------------------
(***************************************************************************)
(* Model of dariallab/opengraph: the document walk (OpenGraph.walk), the   *)
(* <link> extractor and its contribution (tag_link.go), and the entry      *)
(* points Parse and Fetch (opengraph.go).                                  *)
(*                                                                         *)
(* The recursive walk is unfolded into an explicit call stack: one frame   *)
(* per call of walk that is inside its loop, one action per case of the    *)
(* switch and one for the return at the end of the loop.                   *)
(***************************************************************************)
EXTENDS Naturals, Sequences, FiniteSets

(* ------------------------------ bounds --------------------------------- *)

\* Number of nodes of a parsed tree, the document root included.
MaxNodes == 4

\* Length of the attribute list of the <link> node handed to LinkTag.
MaxAttrs == 2

(* ----------------------------- constants ------------------------------- *)

HTMLMetaTag == "meta"
HTMLLinkTag == "link"
HTMLTitleTag == "title"

\* html.NodeType values used by the walk.
DocumentNode == "DocumentNode"
TextNode == "TextNode"
ElementNode == "ElementNode"

\* A nil *html.Node (node ids are 1..MaxNodes).
NoNode == 0

\* A nil error, and "walk has not returned yet".
NilErr == "nil"
Pending == "pending"

ErrNoURL == "no URL given yet"
ErrContentType == "Content type must be text/html"
ErrRequest == "http.NewRequest error"
ErrTransport == "HTTPClient.Do error"
ErrHTMLParse == "html.Parse error"
ErrContribute == "Contribute error"

(* ------------------------------ strings -------------------------------- *)

\* Header values are sequences of characters, so that a prefix test is real.
TextHTML == <<"t", "e", "x", "t", "/", "h", "t", "m", "l">>
TextHTMLCharset == TextHTML \o <<";", "u", "t", "f", "8">>
TextPlain == <<"t", "e", "x", "t", "/", "p", "l", "a", "i", "n">>
TextOnly == <<"t", "e", "x", "t">>
ContentTypes == {TextHTML, TextHTMLCharset, TextPlain, TextOnly, <<>>}

HasPrefix(s, prefix) ==
    /\ Len(s) >= Len(prefix)
    /\ SubSeq(s, 1, Len(prefix)) = prefix

(* ------------------------------- nodes --------------------------------- *)

Attribute(k, v) == [Key |-> k, Val |-> v]

Node(t, d, a) == [Type |-> t, Data |-> d, Attr |-> a]

DocNode == Node(DocumentNode, "", <<>>)
TextKind == Node(TextNode, "Page", <<>>)
DivKind == Node(ElementNode, "div", <<>>)
TitleKind == Node(ElementNode, HTMLTitleTag, <<>>)
MetaKind ==
    Node(ElementNode, HTMLMetaTag,
         <<Attribute("property", "og:title"), Attribute("content", "OG")>>)
LinkKind(rel, href) ==
    Node(ElementNode, HTMLLinkTag,
         <<Attribute("rel", rel), Attribute("href", href)>>)

LinkKinds ==
    { LinkKind("canonical", "https://a"), LinkKind("canonical", "https://b"),
      LinkKind("icon", "/a.ico"), LinkKind("shortcut icon", "/b.ico") }

\* What a node below the document root can be.
NodeKinds == {TextKind, DivKind, TitleKind, MetaKind} \cup LinkKinds

Nodes == 1..MaxNodes
Root == 1

\* Nodes that html.Parse emits without children: text nodes and the void
\* <meta> element.
IsLeafKind(k) ==
    \/ k.Type = TextNode
    \/ k.Type = ElementNode /\ k.Data = HTMLMetaTag

\* Parent pointers of a tree on Nodes: the root has none, every other node
\* hangs below an earlier node; siblings are ordered by id.
ParentFns ==
    { p \in [Nodes -> 0..MaxNodes] :
        /\ p[Root] = NoNode
        /\ \A n \in Nodes \ {Root} : p[n] \in 1..(n - 1) }

KindFns ==
    { k \in [Nodes -> NodeKinds \cup {DocNode}] :
        /\ k[Root] = DocNode
        /\ \A n \in Nodes \ {Root} : k[n] \in NodeKinds }

\* The trees html.Parse can return: a document node at the root.
Trees ==
    { t \in [Parent : ParentFns, Kind : KindFns] :
        \A n \in Nodes \ {Root} : ~IsLeafKind(t.Kind[t.Parent[n]]) }

EmptyTree ==
    [Parent |-> [n \in Nodes |-> NoNode], Kind |-> [n \in Nodes |-> DocNode]]

SetMin(S) == CHOOSE x \in S : \A y \in S : x <= y
SetMax(S) == CHOOSE x \in S : \A y \in S : x >= y

ChildSet(t, n) == {c \in Nodes : t.Parent[c] = n}

\* html.Node.FirstChild
FirstChildNone(t, n) == NoNode
FirstChild(t, n) ==
    IF ChildSet(t, n) = {} THEN NoNode ELSE SetMin(ChildSet(t, n))

\* html.Node.NextSibling
NextSibling(t, c) ==
    LET later == {d \in ChildSet(t, t.Parent[c]) : d > c}
    IN  IF later = {} THEN NoNode ELSE SetMin(later)

\* html.Node.LastChild and html.Node.PrevSibling
LastChild(t, n) ==
    IF ChildSet(t, n) = {} THEN NoNode ELSE SetMax(ChildSet(t, n))
PrevSibling(t, c) ==
    LET earlier == {d \in ChildSet(t, t.Parent[c]) : d < c}
    IN  IF earlier = {} THEN NoNode ELSE SetMax(earlier)

\* The child the loop of walk handles after `child` (NoNode: the loop's
\* initialisation): for child := node.FirstChild; ...; child = child.NextSibling
LoopChildReversed(t, n, child) ==
    IF child = NoNode THEN LastChild(t, n) ELSE PrevSibling(t, child)
LoopChild(t, n, child) ==
    IF child = NoNode THEN FirstChild(t, n) ELSE NextSibling(t, child)


\* Children of n in sibling order, and the pre-order listing of the subtree
\* of n (a node before its descendants, siblings left to right).
RECURSIVE SortedSeq(_)
SortedSeq(S) ==
    IF S = {} THEN <<>> ELSE <<SetMin(S)>> \o SortedSeq(S \ {SetMin(S)})

RECURSIVE PreOrder(_, _)
RECURSIVE PreOrderAll(_, _)
PreOrder(t, n) == <<n>> \o PreOrderAll(t, SortedSeq(ChildSet(t, n)))
PreOrderAll(t, ns) ==
    IF ns = <<>> THEN <<>> ELSE PreOrder(t, Head(ns)) \o PreOrderAll(t, Tail(ns))

\* Position of n in the listing q.
IndexIn(q, n) == CHOOSE i \in DOMAIN q : q[i] = n

RECURSIVE Ancestors(_, _)
Ancestors(t, n) ==
    IF t.Parent[n] = NoNode THEN {}
    ELSE {t.Parent[n]} \cup Ancestors(t, t.Parent[n])

(* ----------------------------- aggregate ------------------------------- *)

Intent(url, strict, client) ==
    [URL |-> url, Strict |-> strict, HTTPClient |-> client]

OpenGraph(title, favicon, canonical, intent) ==
    [Title |-> title, Favicon |-> favicon, CanonicalURL |-> canonical,
     Intent |-> intent]

(* --------------------------- tag extractors ---------------------------- *)

Link(rel, href) == [Rel |-> rel, Href |-> href]

\* LinkTag: the loop over n.Attr; a later attribute of the same key
\* overwrites an earlier one, other keys are skipped.
RECURSIVE LinkAttrs(_, _)
LinkAttrs(attrs, link) ==
    IF attrs = <<>> THEN link
    ELSE LET attr == Head(attrs)
         IN  LinkAttrs(Tail(attrs),
                 IF attr.Key = "rel" THEN [link EXCEPT !.Rel = attr.Val]
                 ELSE IF attr.Key = "href" THEN [link EXCEPT !.Href = attr.Val]
                 ELSE link)

LinkTag(n) == LinkAttrs(n.Attr, Link("", ""))

IsFaviconIconOnly(link) == link.Rel = "icon"
IsFavicon(link) == link.Rel = "shortcut icon" \/ link.Rel = "icon"

IsCanonical(link) == link.Rel = "canonical"

\* Link.Contribute: the aggregate after the call (the error is always nil).
LinkContributeFirstWins(link, g) ==
    IF IsFavicon(link) /\ g.Favicon = "" THEN [g EXCEPT !.Favicon = link.Href]
    ELSE IF IsCanonical(link) /\ g.CanonicalURL = ""
         THEN [g EXCEPT !.CanonicalURL = link.Href]
    ELSE g
LinkContribute(link, g) ==
    IF IsFavicon(link) THEN [g EXCEPT !.Favicon = link.Href]
    ELSE IF IsCanonical(link) THEN [g EXCEPT !.CanonicalURL = link.Href]
    ELSE g

LinkContributeError(link, g) == NilErr

\* MetaTag / Meta.Contribute: property and content of the node; a scalar
\* field keeps its first value.
RECURSIVE AttrVal(_, _)
AttrVal(attrs, key) ==
    IF attrs = <<>> THEN ""
    ELSE IF Head(attrs).Key = key THEN Head(attrs).Val
    ELSE AttrVal(Tail(attrs), key)

MetaTag(n) ==
    [Property |-> AttrVal(n.Attr, "property"), Content |-> AttrVal(n.Attr, "content")]

MetaContribute(meta, g) ==
    IF meta.Property = "og:title" /\ g.Title = ""
    THEN [g EXCEPT !.Title = meta.Content]
    ELSE g

\* TitleTag / Title.Contribute: the text content of the node; first value wins.
TitleTag(t, n) ==
    LET c == FirstChild(t, n)
    IN  IF c # NoNode /\ t.Kind[c].Type = TextNode THEN t.Kind[c].Data ELSE ""

TitleContribute(text, g) ==
    IF g.Title = "" THEN [g EXCEPT !.Title = text] ELSE g

\* What the missing Contribute methods may return: nil, or a structural error.
ContributeResults == {NilErr, ErrContribute}

(* ------------------------------- state --------------------------------- *)

VARIABLES
    og,       \* the aggregate record (*OpenGraph)
    og0,      \* the aggregate as it was when the operation started
    tree,     \* the tree html.Parse returned
    stack,    \* active calls of walk, innermost last
    visited,  \* nodes walk was called on, in call order
    log,      \* Contribute calls: node, tag family, returned error
    ret,      \* what the top-level operation returned
    pc,       \* position of the top-level operation
    io,       \* what Fetch did to the outside world
    node,     \* the element handed to LinkTag (extractor runs)
    link      \* the fragment LinkTag built (extractor runs)

vars == <<og, og0, tree, stack, visited, log, ret, pc, io, node, link>>

\* A call of walk inside its loop: its node and its loop variable.
Frame(n, c) == [node |-> n, child |-> c]

Top == stack[Len(stack)]

NoIO == [request |-> FALSE, sent |-> FALSE, parsed |-> FALSE]

NoLink == Link("", "")

\* The case of the switch in walk that node kind k takes.
DispatchIgnoringStrict(g, k) ==
    IF k.Type # ElementNode THEN "none"
    ELSE IF k.Data = HTMLMetaTag THEN HTMLMetaTag
    ELSE IF k.Data = HTMLTitleTag THEN HTMLTitleTag
    ELSE IF k.Data = HTMLLinkTag THEN HTMLLinkTag
    ELSE "none"
DispatchMetaOnly(g, k) ==
    IF k.Type # ElementNode THEN "none"
    ELSE IF k.Data = HTMLMetaTag THEN HTMLMetaTag
    ELSE "none"
Dispatch(g, k) ==
    IF k.Type # ElementNode THEN "none"
    ELSE IF k.Data = HTMLMetaTag THEN HTMLMetaTag
    ELSE IF ~g.Intent.Strict /\ k.Data = HTMLTitleTag THEN HTMLTitleTag
    ELSE IF ~g.Intent.Strict /\ k.Data = HTMLLinkTag THEN HTMLLinkTag
    ELSE "none"

(* ----------------------------- the walk -------------------------------- *)

\* The node the next call of walk is made on: the root handed over by Parse,
\* or the child the innermost loop has reached (NoNode: that loop is over).
Callee == IF stack = <<>> THEN Root ELSE Top.child

\* walk returns e to the frames in `callers`.  A calling loop drops the value
\* (og.walk(child)) and moves on to child.NextSibling; with no caller left the
\* value goes to Parse, which returns it unchanged.
Return(callers, e) ==
    IF callers = <<>>
    THEN /\ stack' = <<>>
         /\ ret' = e
         /\ pc' = "done"
    ELSE LET caller == callers[Len(callers)]
         IN  /\ stack' = [callers EXCEPT ![Len(callers)].child =
                              LoopChild(tree, caller.node, caller.child)]
             /\ UNCHANGED <<ret, pc>>

\* walk is called on a node that takes case `tag` of the switch.
Called(tag) ==
    /\ pc = "walk"
    /\ Callee # NoNode
    /\ Dispatch(og, tree.Kind[Callee]) = tag

Logged(n, tag, e) == [node |-> n, tag |-> tag, err |-> e]

\* case node.Data == HTMLMetaTag: return MetaTag(node).Contribute(og)
WalkMeta ==
    /\ Called(HTMLMetaTag)
    /\ \E e \in ContributeResults :
        /\ og' = IF e = NilErr
                 THEN MetaContribute(MetaTag(tree.Kind[Callee]), og)
                 ELSE og
        /\ log' = Append(log, Logged(Callee, HTMLMetaTag, e))
        /\ Return(stack, e)
    /\ visited' = Append(visited, Callee)
    /\ UNCHANGED <<og0, tree, io, node, link>>

\* case !og.Intent.Strict && node.Data == HTMLTitleTag:
\*     return TitleTag(node).Contribute(og)
WalkTitle ==
    /\ Called(HTMLTitleTag)
    /\ \E e \in ContributeResults :
        /\ og' = IF e = NilErr
                 THEN TitleContribute(TitleTag(tree, Callee), og)
                 ELSE og
        /\ log' = Append(log, Logged(Callee, HTMLTitleTag, e))
        /\ Return(stack, e)
    /\ visited' = Append(visited, Callee)
    /\ UNCHANGED <<og0, tree, io, node, link>>

\* case !og.Intent.Strict && node.Data == HTMLLinkTag:
\*     return LinkTag(node).Contribute(og)
WalkLink ==
    /\ Called(HTMLLinkTag)
    /\ LET l == LinkTag(tree.Kind[Callee])
       IN  /\ og' = LinkContribute(l, og)
           /\ log' = Append(log, Logged(Callee, HTMLLinkTag,
                                        LinkContributeError(l, og)))
           /\ Return(stack, LinkContributeError(l, og))
    /\ visited' = Append(visited, Callee)
    /\ UNCHANGED <<og0, tree, io, node, link>>

\* No case of the switch applies: the call enters its loop,
\* child := node.FirstChild.
WalkDescend ==
    /\ Called("none")
    /\ stack' = Append(stack, Frame(Callee, LoopChild(tree, Callee, NoNode)))
    /\ visited' = Append(visited, Callee)
    /\ UNCHANGED <<og, og0, tree, log, ret, pc, io, node, link>>

\* child == nil: the loop is over, return nil.
WalkReturn ==
    /\ pc = "walk"
    /\ stack # <<>>
    /\ Top.child = NoNode
    /\ Return(SubSeq(stack, 1, Len(stack) - 1), NilErr)
    /\ UNCHANGED <<og, og0, tree, visited, log, io, node, link>>

\* Parse: html.Parse(body) fails, or returns a tree that walk is called on.
ParseError ==
    /\ pc = "Parse"
    /\ io' = [io EXCEPT !.parsed = TRUE]
    /\ ret' = ErrHTMLParse
    /\ pc' = "done"
    /\ UNCHANGED <<og, og0, tree, stack, visited, log, node, link>>

ParseWalk ==
    /\ pc = "Parse"
    /\ io' = [io EXCEPT !.parsed = TRUE]
    /\ \E t \in Trees : tree' = t
    /\ pc' = "walk"
    /\ UNCHANGED <<og, og0, stack, visited, log, ret, node, link>>

(* -------------------------------- Fetch -------------------------------- *)

\* if og.Intent.URL == ""
URLNeverMissing(g) == FALSE
URLMissing(g) == g.Intent.URL = ""

\* Lines 75-77: no URL, return at once.
FetchNoURL ==
    /\ pc = "Fetch"
    /\ URLMissing(og)
    /\ ret' = ErrNoURL
    /\ pc' = "done"
    /\ UNCHANGED <<og, og0, tree, stack, visited, log, io, node, link>>

\* Lines 79-92: install the default client, build the request.
FetchRequest ==
    /\ pc = "Fetch"
    /\ ~URLMissing(og)
    /\ og' = IF og.Intent.HTTPClient = "nil"
             THEN [og EXCEPT !.Intent.HTTPClient = "http.DefaultClient"]
             ELSE og
    /\ \/ /\ ret' = ErrRequest
          /\ pc' = "done"
          /\ io' = io
       \/ /\ io' = [io EXCEPT !.request = TRUE]
          /\ pc' = "Do"
          /\ ret' = ret
    /\ UNCHANGED <<og0, tree, stack, visited, log, node, link>>

\* Lines 94-102: send the request, check the Content-Type of the response.
FetchDo ==
    /\ pc = "Do"
    /\ io' = [io EXCEPT !.sent = TRUE]
    /\ \/ /\ ret' = ErrTransport
          /\ pc' = "done"
       \/ \E ct \in ContentTypes :
            IF HasPrefix(ct, TextHTML)
            THEN pc' = "Parse" /\ ret' = ret
            ELSE pc' = "done" /\ ret' = ErrContentType
    /\ UNCHANGED <<og, og0, tree, stack, visited, log, node, link>>

(* --------------------------- extractor runs ---------------------------- *)

\* LinkTag(n) on one <link> element.
LinkTagStep ==
    /\ pc = "LinkTag"
    /\ link' = LinkTag(node)
    /\ pc' = "Contribute"
    /\ UNCHANGED <<og, og0, tree, stack, visited, log, ret, io, node>>

\* link.Contribute(og) on the fragment just built.
LinkContributeStep ==
    /\ pc = "Contribute"
    /\ og' = LinkContribute(link, og)
    /\ ret' = LinkContributeError(link, og)
    /\ pc' = "done"
    /\ UNCHANGED <<og0, tree, stack, visited, log, io, node, link>>

(* --------------------------- specifications ---------------------------- *)

Titles == {"", "Old"}
Favicons == {"", "/old.ico"}
Canonicals == {"", "https://old"}

\* Aggregates a caller may hand to Parse: fresh, or filled by an earlier parse.
ParseAggregates ==
    { OpenGraph(f[1], f[2], f[3], Intent("https://src", s, "nil")) :
        f \in {<<"", "", "">>, <<"Old", "/old.ico", "https://old">>},
        s \in BOOLEAN }

InitCommon ==
    /\ og0 = og
    /\ tree = EmptyTree
    /\ stack = <<>>
    /\ visited = <<>>
    /\ log = <<>>
    /\ ret = Pending
    /\ io = NoIO

\* og.Parse(body)
Init ==
    /\ og \in ParseAggregates
    /\ pc = "Parse"
    /\ node = DocNode
    /\ link = NoLink
    /\ InitCommon

Walk == WalkMeta \/ WalkTitle \/ WalkLink \/ WalkDescend \/ WalkReturn

Next == ParseError \/ ParseWalk \/ Walk

Spec == Init /\ [][Next]_vars

\* og.Fetch(ctx)
FetchAggregates ==
    { OpenGraph(f[1], f[2], f[3], Intent(u, s, c)) :
        f \in {<<"", "", "">>, <<"Old", "/old.ico", "https://old">>},
        u \in {"", "https://src"},
        s \in BOOLEAN,
        c \in {"nil", "custom"} }

InitFetch ==
    /\ og \in FetchAggregates
    /\ pc = "Fetch"
    /\ node = DocNode
    /\ link = NoLink
    /\ InitCommon

NextFetch == FetchNoURL \/ FetchRequest \/ FetchDo \/ Next

SpecFetch == InitFetch /\ [][NextFetch]_vars

\* LinkTag(n).Contribute(og) on its own.
AttrKeys == {"rel", "href", "class"}
AttrVals == {"icon", "shortcut icon", "canonical", "stylesheet", "/f.ico"}
Attributes == {Attribute(k, v) : k \in AttrKeys, v \in AttrVals}

RECURSIVE SeqsUpTo(_, _)
SeqsUpTo(S, n) ==
    IF n = 0 THEN {<<>>}
    ELSE LET shorter == SeqsUpTo(S, n - 1)
         IN  shorter \cup {Append(q, x) : q \in shorter, x \in S}

LinkNodes ==
    {Node(ElementNode, HTMLLinkTag, a) : a \in SeqsUpTo(Attributes, MaxAttrs)}

LinkAggregates ==
    { OpenGraph(t, f, c, Intent("https://src", FALSE, "nil")) :
        t \in Titles, f \in Favicons, c \in Canonicals }

InitLink ==
    /\ og \in LinkAggregates
    /\ node \in LinkNodes
    /\ pc = "LinkTag"
    /\ link = NoLink
    /\ InitCommon

NextLink == LinkTagStep \/ LinkContributeStep

SpecLink == InitLink /\ [][NextLink]_vars

(* ------------------------------- claims -------------------------------- *)

\* The walk was started by Parse and its outermost call has returned.
WalkDone == pc = "done" /\ visited # <<>>

Strict == og.Intent.Strict

Count(q, x) == Cardinality({i \in DOMAIN q : q[i] = x})

IsElement(n, name) ==
    tree.Kind[n].Type = ElementNode /\ tree.Kind[n].Data = name

\* The dispatch table as the specification states it.
ShouldDispatch(n) ==
    \/ IsElement(n, "meta")
    \/ ~Strict /\ (IsElement(n, "title") \/ IsElement(n, "link"))

\* n has no proper ancestor that the walk dispatches.
Exposed(n) == \A a \in Ancestors(tree, n) : ~ShouldDispatch(a)

LoggedNodes == {log[i].node : i \in DOMAIN log}
VisitedNodes == {visited[i] : i \in DOMAIN visited}

\* C1 (as claimed): if the Contribute call of any dispatched node returns an
\* error, no later node contributes and the walk (and so Parse) returns that
\* error, whatever the depth of the failing node.
C1_ErrorAbortsAndPropagates ==
    WalkDone =>
        \A i \in DOMAIN log :
            log[i].err # NilErr => (i = Len(log) /\ ret = log[i].err)

\* C2 (as claimed): the walk visits every node exactly once, and the number
\* of Contribute calls equals the number of meta elements plus, when not
\* strict, the number of title and link elements, nested ones included.
C2_EveryNodeVisitedOnce ==
    WalkDone =>
        /\ \A n \in Nodes : Count(visited, n) = 1
        /\ Len(log) = Cardinality({n \in Nodes : ShouldDispatch(n)})

\* C2 (amended): no node is ever visited twice; when the walk is over, the
\* visited nodes are exactly those with no dispatched proper ancestor, and the
\* Contribute calls are exactly one per dispatchable element among them.
C2_ExposedNodesVisitedOnce ==
    /\ \A i, j \in DOMAIN visited : visited[i] = visited[j] => i = j
    /\ WalkDone =>
        LET exposed == {n \in Nodes : Exposed(n)}
            wanted == {n \in exposed : ShouldDispatch(n)}
        IN  /\ VisitedNodes = exposed
            /\ LoggedNodes = wanted
            /\ Len(log) = Cardinality(wanted)

\* C2 witness: a finished non-strict walk of a tree with a meta element below
\* a title element; the title contributed, the meta was never visited.
C2_Witness ==
    /\ WalkDone
    /\ ~Strict
    /\ \E n, m \in Nodes :
        /\ IsElement(n, "title") /\ IsElement(m, "meta")
        /\ tree.Parent[m] = n
        /\ n \in LoggedNodes
        /\ m \notin VisitedNodes

\* C3: in strict mode the walk never calls the title or link extractor, so
\* favicon and canonical URL keep their values and the title never comes from
\* a <title> element; meta elements reached by the walk contribute in both
\* modes, title and link elements reached by it contribute when not strict.
C3_StrictGate ==
    /\ Strict =>
        /\ \A i \in DOMAIN log : log[i].tag = "meta"
        /\ og.Favicon = og0.Favicon
        /\ og.CanonicalURL = og0.CanonicalURL
        /\ og.Title \in {og0.Title, "OG"}
    /\ WalkDone =>
        \A n \in {m \in Nodes : Exposed(m)} :
            /\ IsElement(n, "meta") =>
                   \E i \in DOMAIN log : log[i].node = n /\ log[i].tag = "meta"
            /\ (~Strict /\ IsElement(n, "title")) =>
                   \E i \in DOMAIN log : log[i].node = n /\ log[i].tag = "title"
            /\ (~Strict /\ IsElement(n, "link")) =>
                   \E i \in DOMAIN log : log[i].node = n /\ log[i].tag = "link"

\* C3 witness: a finished strict walk over <title>Page</title> and a <link>
\* on a fresh aggregate: both were visited, nothing was extracted.
C3_Witness ==
    /\ WalkDone
    /\ Strict
    /\ og0.Title = ""
    /\ \E n, c, l \in Nodes :
        /\ IsElement(n, "title")
        /\ tree.Parent[c] = n /\ tree.Kind[c].Type = TextNode
        /\ IsElement(l, "link")
        /\ {n, c, l} \subseteq VisitedNodes
    /\ log = <<>>
    /\ og = og0

\* The href of the link element latest in document order among S, or
\* `before` when S is empty.
LastHref(S, before) ==
    IF S = {} THEN before
    ELSE LET pre == PreOrder(tree, Root)
             last == CHOOSE n \in S :
                        \A m \in S : IndexIn(pre, m) <= IndexIn(pre, n)
         IN  AttrVal(tree.Kind[last].Attr, "href")

LinksWithRel(rels) ==
    {n \in Nodes : IsElement(n, "link") /\ AttrVal(tree.Kind[n].Attr, "rel") \in rels}

\* C4 (as claimed): after a non-strict walk of any tree the canonical URL is
\* the href of the last rel=canonical link in document order, the favicon the
\* href of the last rel=icon / rel="shortcut icon" link; without such a link
\* the field keeps its value.
C4_LastLinkWins ==
    (WalkDone /\ ~Strict) =>
        /\ og.CanonicalURL = LastHref(LinksWithRel({"canonical"}), og0.CanonicalURL)
        /\ og.Favicon = LastHref(LinksWithRel({"icon", "shortcut icon"}), og0.Favicon)

\* C4 (amended): the same, counting only link elements that have no meta,
\* title or link element among their proper ancestors.
C4_LastExposedLinkWins ==
    (WalkDone /\ ~Strict) =>
        /\ og.CanonicalURL =
              LastHref({n \in LinksWithRel({"canonical"}) : Exposed(n)},
                       og0.CanonicalURL)
        /\ og.Favicon =
              LastHref({n \in LinksWithRel({"icon", "shortcut icon"}) : Exposed(n)},
                       og0.Favicon)

\* C4 witness: two canonical links, https://a before https://b, both reached
\* by a finished non-strict walk; the aggregate holds https://b.
C4_Witness ==
    /\ WalkDone
    /\ ~Strict
    /\ \E m, n \in Nodes :
        /\ tree.Kind[m] = LinkKind("canonical", "https://a")
        /\ tree.Kind[n] = LinkKind("canonical", "https://b")
        /\ IndexIn(PreOrder(tree, Root), m) < IndexIn(PreOrder(tree, Root), n)
        /\ {m, n} \subseteq LoggedNodes
    /\ og.CanonicalURL = "https://b"

\* C5: Link.Contribute sets the favicon (and nothing else) for rel "icon" or
\* "shortcut icon", the canonical URL (and nothing else) for rel "canonical",
\* changes nothing for any other rel, and returns nil in every case.
C5_LinkContributeByRel ==
    (pc = "done" /\ node # DocNode) =>
        /\ ret = NilErr
        /\ og =
            IF link.Rel \in {"icon", "shortcut icon"}
            THEN [og0 EXCEPT !.Favicon = link.Href]
            ELSE IF link.Rel = "canonical"
            THEN [og0 EXCEPT !.CanonicalURL = link.Href]
            ELSE og0

\* C5 witness: a rel="shortcut icon" link has contributed and replaced a
\* different favicon.
C5_Witness ==
    /\ pc = "done"
    /\ link.Rel = "shortcut icon"
    /\ og0.Favicon # link.Href
    /\ og.Favicon = link.Href
    /\ og.CanonicalURL = og0.CanonicalURL

HasAttr(n, key) == \E i \in DOMAIN n.Attr : n.Attr[i].Key = key

\* C6 (as claimed): a link with rel icon, shortcut icon or canonical but no
\* href attribute contributes nothing: favicon and canonical URL are as before.
C6_MissingHrefContributesNothing ==
    ( /\ pc = "done"
      /\ node # DocNode
      /\ ~HasAttr(node, "href")
      /\ link.Rel \in {"icon", "shortcut icon", "canonical"} ) =>
        /\ og.Favicon = og0.Favicon
        /\ og.CanonicalURL = og0.CanonicalURL

\* C7: Fetch on an aggregate with an empty source URL returns an error at
\* once: no client is installed, no request built or sent, Parse and walk
\* are not called, and the aggregate is unchanged.
C7_NoURLNeverStarts ==
    og0.Intent.URL = "" =>
        /\ pc \in {"Fetch", "done"}
        /\ pc = "done" => ret = ErrNoURL
        /\ og = og0
        /\ io = NoIO
        /\ stack = <<>> /\ visited = <<>> /\ log = <<>>

\* C7 witness: Fetch has returned "no URL given yet" on an aggregate with no
\* URL and no client.
C7_Witness ==
    /\ pc = "done"
    /\ og0.Intent.URL = ""
    /\ og0.Intent.HTTPClient = "nil"
    /\ ret = ErrNoURL

\* C9: Contribute calls happen in pre-order document order: of two
\* Contribute calls, the earlier one is on the node that comes first in the
\* pre-order of the tree (so no node contributes twice).
C9_ContributeInPreOrder ==
    Len(log) >= 2 =>
        LET pre == PreOrder(tree, Root)
        IN  \A i, j \in DOMAIN log :
                i # j =>
                    ((i < j) <=> (IndexIn(pre, log[i].node) < IndexIn(pre, log[j].node)))

\* C9 witness: two elements contributed, the first below an earlier sibling
\* of the second and created after it.
C9_Witness ==
    /\ Len(log) >= 2
    /\ log[1].node > log[2].node
    /\ tree.Parent[log[1].node] # tree.Parent[log[2].node]

\* C10: a node the walk visits without dispatching it (a non-element node, an
\* element other than meta/title/link, a title or link in strict mode) causes
\* no Contribute call and no change of the aggregate, and when the walk is
\* over all of its children have been visited.
C10_UndispatchedNodesPassThrough ==
    /\ [][(visited' # visited /\ ~ShouldDispatch(visited'[Len(visited')]))
            => (og' = og /\ log' = log)]_vars
    /\ [](WalkDone =>
            \A n \in VisitedNodes :
                ~ShouldDispatch(n) => ChildSet(tree, n) \subseteq VisitedNodes)

\* C10 witness: a finished strict walk visited a title element, a div element
\* and a child of each.
C10_Witness ==
    /\ WalkDone
    /\ Strict
    /\ \E n, c, d, e \in Nodes :
        /\ IsElement(n, "title") /\ tree.Parent[c] = n
        /\ IsElement(d, "div") /\ tree.Parent[e] = d
        /\ {n, c, d, e} \subseteq VisitedNodes

=============================================================================
